---- MODULE Spec2Model ----
(***************************************************************************)
(* Touch-to-keyboard mapper of nintardis (src/touch_keyboard_haptic.py):   *)
(* the multitouch slot table, the region hit test, the swipe / tap         *)
(* detector and the calls made on the virtual keyboard and haptic driver.  *)
(*                                                                         *)
(* Durations are in milliseconds: SWIPE_COOLDOWN is 0.3 s, and              *)
(* VIEWPORT_TAP_TIMEOUT 0.15 s.  time.time() is the variable now, counted  *)
(* in ticks of TickMs milliseconds.                                        *)
(***************************************************************************)
EXTENDS Integers, Sequences, FiniteSets, TLC

(* ------------------------------------------------------------------ *)
(* Program constants                                                    *)
(* ------------------------------------------------------------------ *)

PHYSICAL_WIDTH == 480
PHYSICAL_HEIGHT == 800
TOUCH_MAX_X == 799
TOUCH_MAX_Y == 479
SWIPE_MIN_DISTANCE == 60
SWIPE_MIN_VERTICAL == 50
SWIPE_MAX_OFF_AXIS == 70
SWIPE_COOLDOWN == 300
VIEWPORT_TAP_TIMEOUT == 150
TOUCH_SIZE_THRESHOLD == 40

\* A dict key that is missing, or holds None (slot.get(k) is None either way).
None == -1

\* The event value that ends a contact (ABS_MT_TRACKING_ID == -1).
TRACKING_END == -1

TOUCH_REGIONS ==
    << [name |-> "LOAD",   key |-> <<"KEY_L", "KEY_E">>,     coords |-> <<39, 388, 159, 437>>],
       [name |-> "A BTN",  key |-> <<"KEY_A">>,              coords |-> <<355, 508, 458, 609>>],
       [name |-> "B BTN",  key |-> <<"KEY_B">>,              coords |-> <<250, 509, 351, 608>>],
       [name |-> "START",  key |-> <<"KEY_ENTER">>,          coords |-> <<240, 685, 337, 728>>],
       [name |-> "SELECT", key |-> <<"KEY_LEFTCTRL">>,       coords |-> <<156, 686, 240, 731>>],
       [name |-> "RIGHT",  key |-> <<"KEY_RIGHT">>,          coords |-> <<117, 534, 218, 594>>],
       [name |-> "UP",     key |-> <<"KEY_UP">>,             coords |-> <<79, 464, 162, 522>>],
       [name |-> "LEFT",   key |-> <<"KEY_LEFT">>,           coords |-> <<22, 523, 96, 594>>],
       [name |-> "DOWN",   key |-> <<"KEY_DOWN">>,           coords |-> <<87, 594, 159, 658>>],
       [name |-> "SAVE",   key |-> <<"KEY_S", "KEY_E">>,     coords |-> <<168, 388, 309, 437>>],
       [name |-> "EXIT",   key |-> <<"KEY_ENTER", "KEY_E">>, coords |-> <<319, 388, 456, 438>>] >>

VIEWPORT_REGION ==
    [name |-> "VIEWPORT", key |-> <<"KEY_ENTER">>, coords |-> <<0, 0, 480, 388>>]

\* The key codes the virtual keyboard is created with.
KeyCodes ==
    {"KEY_ESC", "KEY_ENTER", "KEY_A", "KEY_B", "KEY_LEFTCTRL", "KEY_RIGHT",
     "KEY_UP", "KEY_LEFT", "KEY_DOWN", "KEY_E", "KEY_L", "KEY_S"}

directional_keys == {"UP", "DOWN", "LEFT", "RIGHT"}

(* ------------------------------------------------------------------ *)
(* Coordinate mapper                                                    *)
(* ------------------------------------------------------------------ *)

\* int(v * X_SCALE) with X_SCALE = (TOUCH_MAX_X + 1) / PHYSICAL_WIDTH: the
\* float product truncated, which for the layout's range is the integer floor.
ScaleX(v) == (v * (TOUCH_MAX_X + 1)) \div PHYSICAL_WIDTH

\* Mutant: the y coordinate left in physical pixels.
ScaleY_Unscaled(v) == v

ScaleY(v) == (v * (TOUCH_MAX_Y + 1)) \div PHYSICAL_HEIGHT

ToTouch(c) == << ScaleX(c[1]), ScaleY(c[2]), ScaleX(c[3]), ScaleY(c[4]) >>

\* self.touch_regions: the catalog with touch-space rectangles.
touch_regions ==
    [i \in 1..Len(TOUCH_REGIONS) |->
        [name |-> TOUCH_REGIONS[i].name,
         key |-> TOUCH_REGIONS[i].key,
         coords |-> ToTouch(TOUCH_REGIONS[i].coords)]]

\* self.viewport
viewport ==
    [name |-> VIEWPORT_REGION.name,
     key |-> VIEWPORT_REGION.key,
     coords |-> ToTouch(VIEWPORT_REGION.coords)]

RegionNames == {touch_regions[i].name : i \in 1..Len(touch_regions)}

(* ------------------------------------------------------------------ *)
(* Sequence helpers                                                     *)
(* ------------------------------------------------------------------ *)

RECURSIVE Flatten(_)
Flatten(ss) == IF ss = <<>> THEN <<>> ELSE Head(ss) \o Flatten(Tail(ss))

\* Every order in which a Python set can be iterated.
Orders(S) ==
    {f \in [1..Cardinality(S) -> S] : \A i, j \in 1..Cardinality(S) : f[i] = f[j] => i = j}

InRect(c, x, y) == c[1] <= x /\ x <= c[3] /\ c[2] <= y /\ y <= c[4]

Abs(v) == IF v < 0 THEN -v ELSE v

(* ------------------------------------------------------------------ *)
(* Hit tester                                                           *)
(* ------------------------------------------------------------------ *)

\* 138 * X_SCALE <= x <= 339 * X_SCALE and 505 * Y_SCALE <= y <= 607 * Y_SCALE,
\* compared exactly (x and y are the integers evdev reports).
in_right_b_box(x, y) ==
    /\ 138 * (TOUCH_MAX_X + 1) <= x * PHYSICAL_WIDTH
    /\ x * PHYSICAL_WIDTH <= 339 * (TOUCH_MAX_X + 1)
    /\ 505 * (TOUCH_MAX_Y + 1) <= y * PHYSICAL_HEIGHT
    /\ y * PHYSICAL_HEIGHT <= 607 * (TOUCH_MAX_Y + 1)

\* Mutant: the A/B pairing applied whatever the touch size.
DirectHit_AnySize(i, x, y, touch_size) ==
    LET r == touch_regions[i] IN
    IF InRect(r.coords, x, y)
    THEN <<r.name>> \o
         (IF r.name \in {"A BTN", "B BTN"}
          THEN <<IF r.name = "A BTN" THEN "B BTN" ELSE "A BTN">>
          ELSE <<>>)
    ELSE <<>>

\* What the first loop appends while visiting catalog entry i.
DirectHit(i, x, y, touch_size) ==
    LET r == touch_regions[i] IN
    IF InRect(r.coords, x, y)
    THEN <<r.name>> \o
         (IF touch_size >= TOUCH_SIZE_THRESHOLD /\ r.name \in {"A BTN", "B BTN"}
          THEN LET other == IF r.name = "A BTN" THEN "B BTN" ELSE "A BTN" IN
               IF \E j \in 1..Len(touch_regions) : touch_regions[j].name = other
               THEN <<other>> ELSE <<>>
          ELSE <<>>)
    ELSE <<>>

\* Mutant: the RIGHT+B box applied only above the threshold.
ComboHit_Above(active, x, y, touch_size) ==
    IF in_right_b_box(x, y) /\ touch_size > TOUCH_SIZE_THRESHOLD
    THEN LET found_b == \E k \in 1..Len(active) : active[k] = "B BTN"
             found_right == \E k \in 1..Len(active) : active[k] = "RIGHT"
         IN (IF found_b THEN <<>> ELSE <<"B BTN">>) \o
            (IF found_right THEN <<>> ELSE <<"RIGHT">>)
    ELSE <<>>

\* The RIGHT+B box: B BTN, then RIGHT, each appended when not yet in the list.
ComboHit(active, x, y, touch_size) ==
    IF in_right_b_box(x, y) /\ touch_size >= TOUCH_SIZE_THRESHOLD
    THEN LET found_b == \E k \in 1..Len(active) : active[k] = "B BTN"
             found_right == \E k \in 1..Len(active) : active[k] = "RIGHT"
         IN (IF found_b THEN <<>> ELSE <<"B BTN">>) \o
            (IF found_right THEN <<>> ELSE <<"RIGHT">>)
    ELSE <<>>

\* The list of region names check_touch_regions returns, in its order.
check_touch_regions(x, y, touch_size) ==
    LET direct == Flatten([i \in 1..Len(touch_regions) |-> DirectHit(i, x, y, touch_size)])
    IN direct \o ComboHit(direct, x, y, touch_size)

is_in_viewport(x, y) == InRect(viewport.coords, x, y)

(* ------------------------------------------------------------------ *)
(* Bounds and inputs of the model                                       *)
(* ------------------------------------------------------------------ *)

\* One tick of the clock, in milliseconds (an eighth of a second, so that
\* every duration of the model is an exact binary fraction of a second).
TickMs == 125

\* The clock starts at StartTime ticks (time.time() is far larger than both
\* SWIPE_COOLDOWN and VIEWPORT_TAP_TIMEOUT) and is followed for MaxTicks ticks.
StartTime == 3
MaxTicks == 3

\* Slot indices of the slot table, and those the device selects.
Slots == {0, 1}
SlotInputs == {0}

\* Tracking ids the device assigns to contacts.
TrackingIds == {5}

\* Coordinates the device reports: viewport points, the LEFT and B BTN
\* rectangles, and a point outside every region.
XVals == {100, 180, 450}
YVals == {100, 110, 180, 330}

(* ------------------------------------------------------------------ *)
(* State                                                                *)
(* ------------------------------------------------------------------ *)

VARIABLES
    touch_slots,      \* self.touch_slots: slot index -> slot dict
    current_slot,     \* self.current_slot
    active_gestures,  \* self.active_gestures
    kbd,              \* virtual keyboard: last value written per key code
    now,              \* time.time(), in ticks
    pc,               \* "running" in the read loop; "stopping" once
                      \* KeyboardInterrupt is caught, cleanup() still to close
                      \* the handles; "keyboard_closed" after its first close();
                      \* "closed" after its second; "killed" when the process
                      \* ended with no handle closed, "killed_keyboard_closed"
                      \* when it ended between the two close() calls
    emits,            \* calls made on the sinks by the step just taken
    hist,             \* per slot: what its contact has done so far
    probe,            \* hit-test harness: a point, a size and the result
    event,            \* the event the read loop handled last (type, code, value)
    drv               \* haptic driver: "ok", or "error" when self.drv.play() raises

vars == << touch_slots, current_slot, active_gestures, kbd, now, pc, emits, hist, probe,
           event, drv >>

\* The dict {} stored in the table: every field as slot.get() reads it when the
\* key is missing.  `stored` says that the dict is the one self.touch_slots holds
\* for the slot index, so that an assignment to one of its keys shows in the table.
EmptySlot ==
    [tracking_id |-> None, x |-> None, y |-> None,
     start_x |-> None, start_y |-> None,
     last_swipe_time |-> 0, button_pressed |-> FALSE,
     touch_start_time |-> 0, swipe_detected |-> FALSE,
     in_viewport |-> FALSE, active_buttons |-> {}, touch_size |-> 0,
     stored |-> TRUE]

\* A slot index self.touch_slots has no entry for: self.touch_slots.get(k, {})
\* gives a fresh {} that is in the table only once it has been assigned to it.
NoSlot == [EmptySlot EXCEPT !.stored = FALSE]

\* self.touch_slots[self.current_slot] = slot
Stored(slot) == [slot EXCEPT !.stored = TRUE]

\* The dict process_tracking_id stores for a new contact.
NewSlot(id, t) ==
    [tracking_id |-> id, x |-> None, y |-> None,
     start_x |-> None, start_y |-> None,
     last_swipe_time |-> 0, button_pressed |-> FALSE,
     touch_start_time |-> t, swipe_detected |-> FALSE,
     in_viewport |-> FALSE, active_buttons |-> {}, touch_size |-> 0,
     stored |-> TRUE]

SwipeNames == {"Swipe right", "Swipe left", "Swipe down", "Swipe up"}

EmitNames == RegionNames \cup {"VIEWPORT"} \cup SwipeNames

\* The record kept per slot beside the program's state:
\*   phase        "open" from a tracking-id start to the tracking-id end that
\*                makes it "closed"; "idle" otherwise
\*   bal          emit_key presses minus releases per name since phase last changed
\*                to "open"
\*   ever_button  a button region was hit during the contact
\*   swipe_at     now at the slot's latest swipe, 0 before the first (kept across
\*                contacts)
\*   scen         progress of the contact along the path (100,100) -> (180,110),
\*                and the calls made since it stood at (100,100)
NoScen == [stage |-> "off", calls |-> <<>>]

NoHist ==
    [phase |-> "idle", bal |-> [n \in EmitNames |-> 0], ever_button |-> FALSE,
     swipe_at |-> 0, scen |-> NoScen]

NoProbe == [x |-> None, y |-> None, size |-> 0, done |-> FALSE, result |-> <<>>]

\* No event handled yet.
NoEvent == [type |-> "", code |-> "", value |-> 0]

Init ==
    /\ touch_slots = [s \in Slots |-> NoSlot]
    /\ current_slot = 0
    /\ active_gestures = {}
    /\ kbd = [k \in KeyCodes |-> 0]
    /\ now = StartTime
    /\ pc = "running"
    /\ emits = <<>>
    /\ hist = [s \in Slots |-> NoHist]
    /\ probe = NoProbe
    /\ event = NoEvent
    /\ drv = "ok"

(* ------------------------------------------------------------------ *)
(* Key / haptic sink                                                    *)
(* ------------------------------------------------------------------ *)

Write(k, value, name) == [op |-> "write", key |-> k, value |-> value, name |-> name]
\* trigger_haptic: self.drv.play() returns (value 1), or raises and the exception
\* is caught and printed (value 0); either way trigger_haptic returns normally.
Haptic(name) ==
    [op |-> "haptic", key |-> "", value |-> IF drv = "ok" THEN 1 ELSE 0, name |-> name]
\* virtual_keyboard.syn() closing the emit_key call of `value` for `name`.
Syn(value, name) == [op |-> "syn", key |-> "", value |-> value, name |-> name]

\* Mutant: syn() is left out after a release.
emit_key_NoSynOnRelease(key_code, value, region_name) ==
    [i \in 1..Len(key_code) |-> Write(key_code[i], value, region_name)]
    \o (IF value = 1 THEN <<Haptic(region_name), Syn(value, region_name)>> ELSE <<>>)

\* Mutant: the haptic pulse is requested inside the loop over the key codes.
emit_key_HapticPerKey(key_code, value, region_name) ==
    Flatten([i \in 1..Len(key_code) |->
        <<Write(key_code[i], value, region_name)>>
        \o (IF value = 1 THEN <<Haptic(region_name)>> ELSE <<>>)])
    \o <<Syn(value, region_name)>>

\* Mutant: an exception of the haptic driver leaves emit_key before syn().
emit_key_HapticRaises(key_code, value, region_name) ==
    [i \in 1..Len(key_code) |-> Write(key_code[i], value, region_name)]
    \o (IF value = 1 THEN <<Haptic(region_name)>> ELSE <<>>)
    \o (IF value = 1 /\ drv = "error" THEN <<>> ELSE <<Syn(value, region_name)>>)

\* emit_key: one write per key code, the haptic pulse on a press, then syn().
emit_key(key_code, value, region_name) ==
    [i \in 1..Len(key_code) |-> Write(key_code[i], value, region_name)]
    \o (IF value = 1 THEN <<Haptic(region_name)>> ELSE <<>>)
    \o <<Syn(value, region_name)>>

\* for region in self.touch_regions: if region['name'] == button: emit_key(...)
EmitRegion(button, value) ==
    Flatten([i \in 1..Len(touch_regions) |->
        IF touch_regions[i].name = button
        THEN emit_key(touch_regions[i].key, value, touch_regions[i].name)
        ELSE <<>>])

\* Mutant: the loop stops before the last button.
ReleaseEach_DropLast(order) ==
    Flatten([i \in 1..(Len(order) - 1) |-> EmitRegion(order[i], 0)])

\* The releases of a loop over a set of button names, visited in `order`.
ReleaseEach(order) == Flatten([i \in 1..Len(order) |-> EmitRegion(order[i], 0)])

\* The keyboard after the calls of `es`.
RECURSIVE ApplyWrites(_, _)
ApplyWrites(k, es) ==
    IF es = <<>> THEN k
    ELSE ApplyWrites(IF Head(es).op = "write"
                     THEN [k EXCEPT ![Head(es).key] = Head(es).value]
                     ELSE k,
                     Tail(es))

(* ------------------------------------------------------------------ *)
(* Handlers                                                             *)
(* ------------------------------------------------------------------ *)

\* time.time() - t, in milliseconds.
Elapsed(t) == (now - t) * TickMs

can_trigger_swipe(slot_id, slot) ==
    /\ slot_id \notin active_gestures
    /\ ~slot.button_pressed
    /\ Elapsed(slot.last_swipe_time) > SWIPE_COOLDOWN

\* Mutant: every region of the hit list is pressed, active already or not.
update_active_buttons_Repress(slot, new_regions) ==
    LET names == {new_regions[i] : i \in 1..Len(new_regions)}
        presses == Flatten([i \in 1..Len(new_regions) |-> EmitRegion(new_regions[i], 1)])
    IN { [buttons |-> names,
          emits |-> ReleaseEach(d) \o presses \o ReleaseEach(r)] :
           d \in Orders((slot.active_buttons \cap directional_keys) \ names),
           r \in Orders((slot.active_buttons \ directional_keys) \ names) }

\* Mutant: the non-directional releases are made before the presses.
update_active_buttons_ReleaseFirst(slot, new_regions) ==
    LET names == {new_regions[i] : i \in 1..Len(new_regions)}
        presses == Flatten([i \in 1..Len(new_regions) |->
                       IF new_regions[i] \notin slot.active_buttons
                       THEN EmitRegion(new_regions[i], 1)
                       ELSE <<>>])
    IN { [buttons |-> names,
          emits |-> ReleaseEach(d) \o ReleaseEach(r) \o presses] :
           d \in Orders((slot.active_buttons \cap directional_keys) \ names),
           r \in Orders((slot.active_buttons \ directional_keys) \ names) }

\* update_active_buttons: every (current_buttons, calls) it can produce, one per
\* iteration order of its two set differences.  new_regions is the hit list.
update_active_buttons(slot, new_regions) ==
    LET names == {new_regions[i] : i \in 1..Len(new_regions)}
        old_directionals == slot.active_buttons \cap directional_keys
        new_directionals == names \cap directional_keys
        current_buttons == names
        presses == Flatten([i \in 1..Len(new_regions) |->
                       IF new_regions[i] \notin slot.active_buttons
                       THEN EmitRegion(new_regions[i], 1)
                       ELSE <<>>])
        old_non_directionals == slot.active_buttons \ directional_keys
    IN { [buttons |-> current_buttons,
          emits |-> ReleaseEach(d) \o presses \o ReleaseEach(r)] :
           d \in Orders(old_directionals \ new_directionals),
           r \in Orders(old_non_directionals \ current_buttons) }

\* abs(dx) > SWIPE_MIN_DISTANCE and abs(dy) < SWIPE_MAX_OFF_AXIS
is_horizontal_swipe(dx, dy) ==
    Abs(dx) > SWIPE_MIN_DISTANCE /\ Abs(dy) < SWIPE_MAX_OFF_AXIS

\* Mutant: the off-axis bound of the vertical test is the vertical minimum.
is_vertical_swipe_TightOffAxis(dx, dy) ==
    Abs(dy) > SWIPE_MIN_VERTICAL /\ Abs(dx) < SWIPE_MIN_VERTICAL

\* abs(dy) > SWIPE_MIN_VERTICAL and abs(dx) < SWIPE_MAX_OFF_AXIS
is_vertical_swipe(dx, dy) ==
    Abs(dy) > SWIPE_MIN_VERTICAL /\ Abs(dx) < SWIPE_MAX_OFF_AXIS

\* Mutant: the vertical test is made first.
DetectSwipe_VerticalFirst(slot) ==
    LET dx == slot.x - slot.start_x
        dy == slot.y - slot.start_y
        rebased == [slot EXCEPT !.last_swipe_time = now, !.start_x = slot.x,
                                !.start_y = slot.y, !.swipe_detected = TRUE]
    IN IF is_vertical_swipe(dx, dy)
       THEN LET key == IF dy > 0 THEN "KEY_DOWN" ELSE "KEY_UP"
                name == IF dy > 0 THEN "Swipe down" ELSE "Swipe up"
            IN [slot |-> rebased,
                emits |-> emit_key(<<key>>, 1, name) \o emit_key(<<key>>, 0, name)]
       ELSE IF is_horizontal_swipe(dx, dy)
       THEN LET key == IF dx > 0 THEN "KEY_RIGHT" ELSE "KEY_LEFT"
                name == IF dx > 0 THEN "Swipe right" ELSE "Swipe left"
            IN [slot |-> rebased,
                emits |-> emit_key(<<key>>, 1, name) \o emit_key(<<key>>, 0, name)]
       ELSE [slot |-> slot, emits |-> <<>>]

DetectSwipe_AnyVertical(slot) ==
    LET dx == slot.x - slot.start_x
        dy == slot.y - slot.start_y
        rebased == [slot EXCEPT !.last_swipe_time = now, !.start_x = slot.x,
                                !.start_y = slot.y, !.swipe_detected = TRUE]
    IN IF Abs(dx) > SWIPE_MIN_DISTANCE /\ Abs(dy) < SWIPE_MAX_OFF_AXIS
       THEN LET key == IF dx > 0 THEN "KEY_RIGHT" ELSE "KEY_LEFT"
                name == IF dx > 0 THEN "Swipe right" ELSE "Swipe left"
            IN [slot |-> rebased,
                emits |-> emit_key(<<key>>, 1, name) \o emit_key(<<key>>, 0, name)]
       ELSE IF Abs(dy) > 0 /\ Abs(dx) < SWIPE_MAX_OFF_AXIS
       THEN LET key == IF dy > 0 THEN "KEY_DOWN" ELSE "KEY_UP"
                name == IF dy > 0 THEN "Swipe down" ELSE "Swipe up"
            IN [slot |-> rebased,
                emits |-> emit_key(<<key>>, 1, name) \o emit_key(<<key>>, 0, name)]
       ELSE [slot |-> slot, emits |-> <<>>]

\* Mutant: a swipe stamps the slot but leaves the origin where it was.
DetectSwipe_KeepOrigin(slot) ==
    LET dx == slot.x - slot.start_x
        dy == slot.y - slot.start_y
        stamped == [slot EXCEPT !.last_swipe_time = now, !.swipe_detected = TRUE]
    IN IF Abs(dx) > SWIPE_MIN_DISTANCE /\ Abs(dy) < SWIPE_MAX_OFF_AXIS
       THEN LET key == IF dx > 0 THEN "KEY_RIGHT" ELSE "KEY_LEFT"
                name == IF dx > 0 THEN "Swipe right" ELSE "Swipe left"
            IN [slot |-> stamped,
                emits |-> emit_key(<<key>>, 1, name) \o emit_key(<<key>>, 0, name)]
       ELSE IF Abs(dy) > SWIPE_MIN_VERTICAL /\ Abs(dx) < SWIPE_MAX_OFF_AXIS
       THEN LET key == IF dy > 0 THEN "KEY_DOWN" ELSE "KEY_UP"
                name == IF dy > 0 THEN "Swipe down" ELSE "Swipe up"
            IN [slot |-> stamped,
                emits |-> emit_key(<<key>>, 1, name) \o emit_key(<<key>>, 0, name)]
       ELSE [slot |-> slot, emits |-> <<>>]

\* The swipe test of the viewport branch, on a slot that can trigger a swipe.
DetectSwipe(slot) ==
    LET dx == slot.x - slot.start_x
        dy == slot.y - slot.start_y
        rebased == [slot EXCEPT !.last_swipe_time = now, !.start_x = slot.x,
                                !.start_y = slot.y, !.swipe_detected = TRUE]
    IN IF is_horizontal_swipe(dx, dy)
       THEN LET key == IF dx > 0 THEN "KEY_RIGHT" ELSE "KEY_LEFT"
                name == IF dx > 0 THEN "Swipe right" ELSE "Swipe left"
            IN [slot |-> rebased,
                emits |-> emit_key(<<key>>, 1, name) \o emit_key(<<key>>, 0, name)]
       ELSE IF is_vertical_swipe(dx, dy)
       THEN LET key == IF dy > 0 THEN "KEY_DOWN" ELSE "KEY_UP"
                name == IF dy > 0 THEN "Swipe down" ELSE "Swipe up"
            IN [slot |-> rebased,
                emits |-> emit_key(<<key>>, 1, name) \o emit_key(<<key>>, 0, name)]
       ELSE [slot |-> slot, emits |-> <<>>]

\* The slot after the axis update at the top of process_touch_position.
StoreAxis(slot, code, value) ==
    IF code = "ABS_MT_POSITION_X"
    THEN [slot EXCEPT !.x = value,
                      !.start_x = IF slot.start_x = None THEN value ELSE slot.start_x]
    ELSE IF code = "ABS_MT_POSITION_Y"
    THEN [slot EXCEPT !.y = value,
                      !.start_y = IF slot.start_y = None THEN value ELSE slot.start_y]
    ELSE IF code = "ABS_MT_TOUCH_MAJOR"
    THEN [slot EXCEPT !.touch_size = value]
    ELSE slot

\* Mutant: the outside branch resets button_pressed whether or not a button
\* was active.
Classify_OutsideAlwaysResets(slot_id, slot) ==
    IF slot.x = None \/ slot.y = None
    THEN {[slot |-> slot, emits |-> <<>>, branch |-> "partial"]}
    ELSE LET regions == check_touch_regions(slot.x, slot.y, slot.touch_size) IN
         IF regions # <<>>
         THEN {[slot |-> [slot EXCEPT !.active_buttons = o.buttons,
                                      !.button_pressed = TRUE],
                 emits |-> o.emits, branch |-> "button"] :
                   o \in update_active_buttons(slot, regions)}
         ELSE IF is_in_viewport(slot.x, slot.y)
         THEN {LET cleared == [slot EXCEPT !.in_viewport = TRUE, !.active_buttons = {}]
                   sw == IF can_trigger_swipe(slot_id, cleared)
                         THEN DetectSwipe(cleared)
                         ELSE [slot |-> cleared, emits |-> <<>>]
               IN [slot |-> sw.slot, emits |-> ReleaseEach(r) \o sw.emits,
                   branch |-> "viewport"] :
                   r \in Orders(slot.active_buttons)}
         ELSE {[slot |-> [slot EXCEPT !.active_buttons = {}, !.button_pressed = FALSE],
                 emits |-> ReleaseEach(r), branch |-> "outside"] :
                   r \in Orders(slot.active_buttons)}

\* The classification of process_touch_position once the axis is stored: every
\* (slot, calls, branch) it can end with.
Classify(slot_id, slot) ==
    IF slot.x = None \/ slot.y = None
    THEN {[slot |-> slot, emits |-> <<>>, branch |-> "partial"]}
    ELSE LET regions == check_touch_regions(slot.x, slot.y, slot.touch_size) IN
         IF regions # <<>>
         THEN {[slot |-> [slot EXCEPT !.active_buttons = o.buttons,
                                      !.button_pressed = TRUE],
                 emits |-> o.emits, branch |-> "button"] :
                   o \in update_active_buttons(slot, regions)}
         ELSE IF is_in_viewport(slot.x, slot.y)
         THEN {LET cleared == [slot EXCEPT !.in_viewport = TRUE, !.active_buttons = {}]
                   sw == IF can_trigger_swipe(slot_id, cleared)
                         THEN DetectSwipe(cleared)
                         ELSE [slot |-> cleared, emits |-> <<>>]
               IN [slot |-> sw.slot, emits |-> ReleaseEach(r) \o sw.emits,
                   branch |-> "viewport"] :
                   r \in Orders(slot.active_buttons)}
         ELSE IF slot.active_buttons # {}
         THEN {[slot |-> [slot EXCEPT !.active_buttons = {}, !.button_pressed = FALSE],
                 emits |-> ReleaseEach(r), branch |-> "outside"] :
                   r \in Orders(slot.active_buttons)}
         ELSE {[slot |-> slot, emits |-> <<>>, branch |-> "outside"]}

\* The viewport tap of process_tracking_id, for the slot as it was on entry.
TapDue(slot) ==
    /\ slot.in_viewport
    /\ ~slot.swipe_detected
    /\ ~slot.button_pressed
    /\ Elapsed(slot.touch_start_time) < VIEWPORT_TAP_TIMEOUT

TapEmits == emit_key(viewport.key, 1, "VIEWPORT") \o emit_key(viewport.key, 0, "VIEWPORT")

(* ------------------------------------------------------------------ *)
(* A handler left partway                                               *)
(* ------------------------------------------------------------------ *)

\* How far a handler has got: the slot as the table shows it, and how many of
\* the handler's calls have been made.  Between(slot, a, b): the points with
\* that slot and a..b calls made.
Between(slot, a, b) == {[slot |-> slot, n |-> i] : i \in a..b}

\* The points process_touch_position passes on its way to the outcome o of
\* Classify, for the slot `pre` it found.  The axis value and the start origin
\* are assigned one after the other, to the dict of the table or to a fresh
\* dict that enters the table at line 280; each branch then makes its calls and
\* assigns its keys in the order of the source.
PositionProgress(pre, code, value, o) ==
    LET half == IF code = "ABS_MT_POSITION_X" THEN [pre EXCEPT !.x = value]
                ELSE [pre EXCEPT !.y = value]
        kept == Stored(StoreAxis(pre, code, value))
        n == Len(o.emits)
        head == IF pre.stored
                THEN Between(pre, 0, 0) \cup Between(half, 0, 0) \cup Between(kept, 0, 0)
                ELSE Between(pre, 0, 0) \cup Between(kept, 0, 0)
        last == Between(o.slot, n, n)
    IN CASE o.branch = "button" ->
              head \cup Between(kept, 0, n)
                   \cup Between([kept EXCEPT !.active_buttons = o.slot.active_buttons], n, n)
                   \cup last
         [] o.branch = "viewport" ->
              LET inv == [kept EXCEPT !.in_viewport = TRUE]
                  cleared == [inv EXCEPT !.active_buttons = {}]
                  rel == Cardinality({i \in 1..n : o.emits[i].name \notin SwipeNames})
                  stamped == [cleared EXCEPT !.last_swipe_time = now]
                  moved_x == [stamped EXCEPT !.start_x = cleared.x]
                  moved_y == [moved_x EXCEPT !.start_y = cleared.y]
              IN head \cup Between(inv, 0, rel) \cup Between(cleared, rel, n)
                      \cup (IF n > rel
                            THEN Between(stamped, n, n) \cup Between(moved_x, n, n)
                                 \cup Between(moved_y, n, n)
                            ELSE {})
                      \cup last
         [] o.branch = "outside" ->
              head \cup Between(kept, 0, n)
                   \cup (IF kept.active_buttons # {}
                         THEN Between([kept EXCEPT !.active_buttons = {}], n, n)
                         ELSE {})
                   \cup last
         [] OTHER -> head \cup last

\* The points the tracking-id end passes while it makes the calls es: the slot
\* is replaced by {} after the last call.
TrackingEndProgress(pre, es) ==
    Between(pre, 0, Len(es)) \cup Between(EmptySlot, Len(es), Len(es))

(* ------------------------------------------------------------------ *)
(* Bookkeeping on the emitted calls                                     *)
(* ------------------------------------------------------------------ *)

\* emit_key calls of `value` for `name` among the calls es.
Calls(es, name, value) ==
    Cardinality({i \in 1..Len(es) :
        es[i].op = "syn" /\ es[i].name = name /\ es[i].value = value})

\* Presses minus releases of `name` among the calls es.
Delta(es, name) == Calls(es, name, 1) - Calls(es, name, 0)

\* A swipe press is among the calls es.
SwipeIn(es) == \E i \in 1..Len(es) : es[i].op = "write" /\ es[i].name \in SwipeNames

\* The stage of the path (100,100) -> (180,110) after a position event: "x" / "y"
\* one axis of the first point known, "at" the contact stands at (100,100), "mx" /
\* "my" one axis moved, "done_xy" / "done_yx" both moved (x first / y first).
ScenStage(stage, code, value) ==
    LET isX == code = "ABS_MT_POSITION_X"
        isY == code = "ABS_MT_POSITION_Y"
    IN CASE stage = "begun" /\ isX /\ value = 100 -> "x"
         [] stage = "begun" /\ isY /\ value = 100 -> "y"
         [] stage = "x" /\ isY /\ value = 100 -> "at"
         [] stage = "y" /\ isX /\ value = 100 -> "at"
         [] stage = "at" /\ isX /\ value = 180 -> "mx"
         [] stage = "at" /\ isY /\ value = 110 -> "my"
         [] stage = "mx" /\ isY /\ value = 110 -> "done_xy"
         [] stage = "my" /\ isX /\ value = 180 -> "done_yx"
         [] OTHER -> "off"

ScenAfter(scen, code, value, es) ==
    LET stage == ScenStage(scen.stage, code, value) IN
    [stage |-> stage,
     calls |-> IF stage \in {"mx", "my", "done_xy", "done_yx"} THEN scen.calls \o es
               ELSE <<>>]

\* The slot's record after a position event that made the calls es.
HistAfterPosition(h, code, value, es, branch) ==
    [phase |-> IF h.phase = "open" THEN "open" ELSE "idle",
     bal |-> [n \in EmitNames |-> h.bal[n] + Delta(es, n)],
     ever_button |-> h.ever_button \/ branch = "button",
     swipe_at |-> IF SwipeIn(es) THEN now ELSE h.swipe_at,
     scen |-> ScenAfter(h.scen, code, value, es)]

\* The slot's record after a tracking-id end that made the calls es.
HistAfterEnd(h, es) ==
    [phase |-> IF h.phase = "open" THEN "closed" ELSE "idle",
     bal |-> [n \in EmitNames |-> h.bal[n] + Delta(es, n)],
     ever_button |-> h.ever_button,
     swipe_at |-> h.swipe_at,
     scen |-> NoScen]

\* The slot's record after a tracking-id start.
HistAfterStart(h) ==
    [NoHist EXCEPT !.phase = "open", !.swipe_at = h.swipe_at,
                   !.scen = [stage |-> "begun", calls |-> <<>>]]

(* ------------------------------------------------------------------ *)
(* Events of the read loop                                              *)
(* ------------------------------------------------------------------ *)

\* run: ABS_MT_SLOT
SelectSlot(value) ==
    /\ pc = "running"
    /\ current_slot' = value
    /\ emits' = <<>>
    /\ UNCHANGED << touch_slots, active_gestures, kbd, now, pc, hist, probe, drv >>

\* Mutant: the end of a contact empties the whole slot table.
TrackingEnd_ClearsTable ==
    /\ pc = "running"
    /\ LET slot == touch_slots[current_slot] IN
       \E r \in Orders(slot.active_buttons) :
          LET es == ReleaseEach(r) \o (IF TapDue(slot) THEN TapEmits ELSE <<>>) IN
          /\ emits' = es
          /\ kbd' = ApplyWrites(kbd, es)
          /\ hist' = [hist EXCEPT ![current_slot] = HistAfterEnd(@, es)]
    /\ active_gestures' = active_gestures \ {current_slot}
    /\ touch_slots' = [s \in Slots |-> EmptySlot]
    /\ UNCHANGED << current_slot, now, pc, probe, drv >>

\* process_tracking_id with event.value == -1
TrackingEnd ==
    /\ pc = "running"
    /\ LET slot == touch_slots[current_slot] IN
       \E r \in Orders(slot.active_buttons) :
          LET es == ReleaseEach(r) \o (IF TapDue(slot) THEN TapEmits ELSE <<>>) IN
          /\ emits' = es
          /\ kbd' = ApplyWrites(kbd, es)
          /\ hist' = [hist EXCEPT ![current_slot] = HistAfterEnd(@, es)]
    /\ active_gestures' = active_gestures \ {current_slot}
    /\ touch_slots' = [touch_slots EXCEPT ![current_slot] = EmptySlot]
    /\ UNCHANGED << current_slot, now, pc, probe, drv >>

\* process_tracking_id with a tracking id
TrackingStart(value) ==
    /\ pc = "running"
    /\ touch_slots' = [touch_slots EXCEPT ![current_slot] = NewSlot(value, now)]
    /\ emits' = <<>>
    /\ hist' = [hist EXCEPT ![current_slot] = HistAfterStart(@)]
    /\ UNCHANGED << current_slot, active_gestures, kbd, now, pc, probe, drv >>

\* process_touch_position
ProcessTouchPosition(code, value) ==
    /\ pc = "running"
    /\ \E o \in Classify(current_slot,
                        Stored(StoreAxis(touch_slots[current_slot], code, value))) :
          /\ touch_slots' = [touch_slots EXCEPT ![current_slot] = o.slot]
          /\ emits' = o.emits
          /\ kbd' = ApplyWrites(kbd, o.emits)
          /\ hist' = [hist EXCEPT ![current_slot] =
                        HistAfterPosition(@, code, value, o.emits, o.branch)]
    /\ UNCHANGED << current_slot, active_gestures, now, pc, probe, drv >>

\* run: any other event (another type, or an axis run does not dispatch, such as
\* ABS_MT_TOUCH_MAJOR) falls through every branch.
IgnoredEvent ==
    /\ pc = "running"
    /\ emits' = <<>>
    /\ UNCHANGED << touch_slots, current_slot, active_gestures, kbd, now, pc, hist, probe, drv >>

\* Time passes while the loop waits for the next event.
Tick ==
    /\ pc = "running"
    /\ now < StartTime + MaxTicks
    /\ now' = now + 1
    /\ emits' = <<>>
    /\ hist' = [s \in Slots |-> [hist[s] EXCEPT !.scen = NoScen]]
    /\ UNCHANGED << touch_slots, current_slot, active_gestures, kbd, pc, probe, drv >>

\* KeyboardInterrupt while the loop waits, caught at line 368: the finally
\* block is about to run cleanup().
Shutdown ==
    /\ pc = "running"
    /\ pc' = "stopping"
    /\ emits' = <<>>
    /\ UNCHANGED << touch_slots, current_slot, active_gestures, kbd, now, hist, probe, drv >>

\* cleanup(): self.virtual_keyboard.close()
CloseKeyboard ==
    /\ pc = "stopping"
    /\ pc' = "keyboard_closed"
    /\ emits' = <<>>
    /\ UNCHANGED << touch_slots, current_slot, active_gestures, kbd, now, hist, probe, drv >>

\* cleanup(): self.touch_device.close(), after which the process exits.
CloseTouch ==
    /\ pc = "keyboard_closed"
    /\ pc' = "closed"
    /\ emits' = <<>>
    /\ UNCHANGED << touch_slots, current_slot, active_gestures, kbd, now, hist, probe, drv >>

\* A second signal (SIGINT, or SIGTERM) arrives while the finally block runs:
\* cleanup() is left where it is and the process ends, with no handle closed or
\* with the keyboard closed and the touch device not.
AbandonCleanup ==
    /\ pc \in {"stopping", "keyboard_closed"}
    /\ pc' = (IF pc = "stopping" THEN "killed" ELSE "killed_keyboard_closed")
    /\ emits' = <<>>
    /\ UNCHANGED << touch_slots, current_slot, active_gestures, kbd, now, hist, probe, drv >>

\* How a signal stops the read loop: KeyboardInterrupt is caught and cleanup()
\* is about to run ("stopping"), or the service is stopped with SIGTERM and the
\* process ends where it is, cleanup() not run ("killed").
Stops == {"stopping", "killed"}

\* SIGTERM while the loop waits for the next event.
Terminate ==
    /\ pc = "running"
    /\ pc' = "killed"
    /\ emits' = <<>>
    /\ UNCHANGED << touch_slots, current_slot, active_gestures, kbd, now, hist, probe, drv >>

\* The signal arrives inside process_tracking_id with event.value == -1: the
\* calls made so far stay made, the slot is as the handler left it.
AbandonTrackingEnd(stop) ==
    /\ pc = "running"
    /\ LET slot == touch_slots[current_slot] IN
       \E r \in Orders(slot.active_buttons) :
          LET all == ReleaseEach(r) \o (IF TapDue(slot) THEN TapEmits ELSE <<>>) IN
          \E c \in TrackingEndProgress(slot, all) :
             LET es == SubSeq(all, 1, c.n) IN
             /\ emits' = es
             /\ kbd' = ApplyWrites(kbd, es)
             /\ hist' = [hist EXCEPT ![current_slot] =
                           [@ EXCEPT !.bal = [n \in EmitNames |-> @[n] + Delta(es, n)],
                                     !.scen = NoScen]]
             /\ touch_slots' = [touch_slots EXCEPT ![current_slot] = c.slot]
             /\ active_gestures' \in
                   (IF c.n <= Len(ReleaseEach(r)) /\ c.slot = slot
                    THEN {active_gestures} ELSE {})
                   \cup (IF c.n >= Len(ReleaseEach(r))
                         THEN {active_gestures \ {current_slot}} ELSE {})
    /\ pc' = stop
    /\ UNCHANGED << current_slot, now, probe, drv >>

\* The signal arrives inside process_touch_position.
AbandonPosition(code, value, stop) ==
    /\ pc = "running"
    /\ LET pre == touch_slots[current_slot] IN
       \E o \in Classify(current_slot, Stored(StoreAxis(pre, code, value))) :
          \E c \in PositionProgress(pre, code, value, o) :
             LET es == SubSeq(o.emits, 1, c.n) IN
             /\ touch_slots' = [touch_slots EXCEPT ![current_slot] = c.slot]
             /\ emits' = es
             /\ kbd' = ApplyWrites(kbd, es)
             /\ hist' = [hist EXCEPT ![current_slot] =
                           HistAfterPosition(@, code, value, es, o.branch)]
    /\ pc' = stop
    /\ UNCHANGED << current_slot, active_gestures, now, probe, drv >>

\* The read loop while it runs, time passing between events.  The events are not
\* recorded here.
Next ==
    \/ \E v \in SlotInputs : SelectSlot(v) /\ UNCHANGED event
    \/ TrackingEnd /\ UNCHANGED event
    \/ \E v \in TrackingIds : TrackingStart(v) /\ UNCHANGED event
    \/ \E v \in XVals : ProcessTouchPosition("ABS_MT_POSITION_X", v) /\ UNCHANGED event
    \/ \E v \in YVals : ProcessTouchPosition("ABS_MT_POSITION_Y", v) /\ UNCHANGED event
    \/ IgnoredEvent /\ UNCHANGED event
    \/ Tick /\ UNCHANGED event

Spec == Init /\ [][Next]_vars

(* ------------------------------------------------------------------ *)
(* The read loop and the ways it is stopped                             *)
(* ------------------------------------------------------------------ *)

\* The events of the read loop, no time passing, and a stop signal that arrives
\* while the loop waits for an event or while a handler runs.
StopNext ==
    \/ \E v \in SlotInputs : SelectSlot(v) /\ UNCHANGED event
    \/ TrackingEnd /\ UNCHANGED event
    \/ \E v \in TrackingIds : TrackingStart(v) /\ UNCHANGED event
    \/ \E v \in XVals : ProcessTouchPosition("ABS_MT_POSITION_X", v) /\ UNCHANGED event
    \/ \E v \in YVals : ProcessTouchPosition("ABS_MT_POSITION_Y", v) /\ UNCHANGED event
    \/ Shutdown /\ UNCHANGED event
    \/ CloseKeyboard /\ UNCHANGED event
    \/ CloseTouch /\ UNCHANGED event
    \/ AbandonCleanup /\ UNCHANGED event
    \/ Terminate /\ UNCHANGED event
    \/ \E stop \in Stops : AbandonTrackingEnd(stop) /\ UNCHANGED event
    \/ \E v \in XVals, stop \in Stops :
          AbandonPosition("ABS_MT_POSITION_X", v, stop) /\ UNCHANGED event
    \/ \E v \in YVals, stop \in Stops :
          AbandonPosition("ABS_MT_POSITION_Y", v, stop) /\ UNCHANGED event

StopSpec == Init /\ [][StopNext]_vars

(* ------------------------------------------------------------------ *)
(* The swipe detector on a contact that has drifted during the cooldown *)
(* ------------------------------------------------------------------ *)

\* Displacements from the origin that the contact has reached: each threshold,
\* its two neighbours, and values between the thresholds.
Drifts == {-71, -70, -69, -65, -61, -60, -59, -51, -50, -49, 0,
           49, 50, 51, 59, 60, 61, 65, 69, 70, 71}

\* A contact of slot 0 in the viewport that swiped at StartTime, which rebased
\* its origin to (100,100), and has since moved by (dx, dy) while the cooldown
\* blocked the detector; the cooldown has now passed.
Drifted(dx, dy) ==
    [NewSlot(5, StartTime) EXCEPT
        !.x = 100 + dx, !.y = 100 + dy, !.start_x = 100, !.start_y = 100,
        !.last_swipe_time = StartTime, !.swipe_detected = TRUE, !.in_viewport = TRUE]

SwipeInit ==
    /\ \E dx \in Drifts : \E dy \in Drifts :
          touch_slots = [s \in Slots |-> IF s = 0 THEN Drifted(dx, dy) ELSE NoSlot]
    /\ current_slot = 0
    /\ active_gestures = {}
    /\ kbd = [k \in KeyCodes |-> 0]
    /\ now = StartTime + MaxTicks
    /\ pc = "running"
    /\ emits = <<>>
    /\ hist = [s \in Slots |->
                 IF s = 0 THEN [NoHist EXCEPT !.phase = "open", !.swipe_at = StartTime]
                 ELSE NoHist]
    /\ probe = NoProbe
    /\ event = NoEvent
    /\ drv = "ok"

\* The device reports the contact's x, or its y, again.
SwipeNext ==
    \/ ProcessTouchPosition("ABS_MT_POSITION_X", touch_slots[current_slot].x)
          /\ UNCHANGED event
    \/ ProcessTouchPosition("ABS_MT_POSITION_Y", touch_slots[current_slot].y)
          /\ UNCHANGED event

SwipeSpec == SwipeInit /\ [][SwipeNext]_vars

(* ------------------------------------------------------------------ *)
(* The read loop event by event                                         *)
(* ------------------------------------------------------------------ *)

\* Coordinates the device reports here: the viewport, LOAD and SAVE (two key
\* codes each), LEFT and B BTN (the latter inside the RIGHT+B box).
DispatchXs == {100, 450}
DispatchYs == {100, 240, 330}

Abs_(code, value) == [type |-> "EV_ABS", code |-> code, value |-> value]

\* Events the read loop is fed: the axes run dispatches, the contact size axis,
\* an axis the program never names, a key event whose code number is that of
\* ABS_MT_SLOT, and the report separator.
DispatchEvents ==
    {Abs_("ABS_MT_SLOT", v) : v \in SlotInputs}
    \cup {Abs_("ABS_MT_TRACKING_ID", v) : v \in TrackingIds \cup {TRACKING_END}}
    \cup {Abs_("ABS_MT_POSITION_X", v) : v \in DispatchXs}
    \cup {Abs_("ABS_MT_POSITION_Y", v) : v \in DispatchYs}
    \cup {Abs_("ABS_MT_TOUCH_MAJOR", TOUCH_SIZE_THRESHOLD), Abs_("ABS_MT_PRESSURE", 1)}
    \cup {[type |-> "EV_KEY", code |-> "ABS_MT_SLOT", value |-> 1],
          [type |-> "EV_SYN", code |-> "SYN_REPORT", value |-> 0]}

\* Mutant: the event type is not tested.
run_AnyType(e) ==
    /\ event' = e
    /\ IF e.code = "ABS_MT_SLOT" THEN SelectSlot(e.value)
       ELSE IF e.code = "ABS_MT_TRACKING_ID"
       THEN IF e.value = TRACKING_END THEN TrackingEnd ELSE TrackingStart(e.value)
       ELSE IF e.code \in {"ABS_MT_POSITION_X", "ABS_MT_POSITION_Y"}
       THEN ProcessTouchPosition(e.code, e.value)
       ELSE IgnoredEvent

\* run: the body of the read loop for one event.
run(e) ==
    /\ event' = e
    /\ IF e.type = "EV_ABS"
       THEN IF e.code = "ABS_MT_SLOT" THEN SelectSlot(e.value)
            ELSE IF e.code = "ABS_MT_TRACKING_ID"
            THEN IF e.value = TRACKING_END THEN TrackingEnd ELSE TrackingStart(e.value)
            ELSE IF e.code \in {"ABS_MT_POSITION_X", "ABS_MT_POSITION_Y"}
            THEN ProcessTouchPosition(e.code, e.value)
            ELSE IgnoredEvent
       ELSE IgnoredEvent

\* The haptic driver starts to fail, or recovers, between two events.
HapticFault ==
    /\ pc = "running"
    /\ drv' = (IF drv = "ok" THEN "error" ELSE "ok")
    /\ emits' = <<>>
    /\ UNCHANGED << touch_slots, current_slot, active_gestures, kbd, now, pc, hist, probe,
                    event >>

DispatchNext ==
    \/ \E e \in DispatchEvents : run(e)
    \/ HapticFault

\* The read loop with every event recorded, no time passing between events.
DispatchSpec == Init /\ [][DispatchNext]_vars

(* ------------------------------------------------------------------ *)
(* Claims on the slot state machine                                     *)
(* ------------------------------------------------------------------ *)

\* The calls of the step just taken from call k + 1 on.
After(k) == SubSeq(emits, k + 1, Len(emits))

\* The step just taken was made on behalf of slot s (a slot-select makes no call).
Stepped(s) == s = current_slot

(* ------------------------------------------------------------------ *)
(* C1: no stuck key.  For a contact (tracking-id start, position updates,  *)
(* tracking-id end) and every name, the presses emitted never exceed the   *)
(* releases by more than one at any point (after any call of any step),    *)
(* and the two are equal once the tracking-id end has been processed.      *)
(* ------------------------------------------------------------------ *)
C1_NoStuckKey ==
    \A s \in Slots :
        hist[s].phase \in {"open", "closed"} =>
            \A n \in EmitNames :
                /\ \A k \in 0..Len(emits) :
                      (hist[s].bal[n] - (IF Stepped(s) THEN Delta(After(k), n) ELSE 0))
                          \in {0, 1}
                /\ hist[s].phase = "closed" => hist[s].bal[n] = 0

\* A contact has ended while B BTN was down: the end released it.
C1_Witness ==
    /\ hist[0].phase = "closed"
    /\ current_slot = 0
    /\ Calls(emits, "B BTN", 0) = 1
    /\ hist[0].bal["B BTN"] = 0

(* ------------------------------------------------------------------ *)
(* C3, as claimed: after shutdown (the stop signal, then cleanup()) every  *)
(* button a contact in progress held has been released: no slot holds an   *)
(* active button and every press of the contact was followed by a release. *)
(* ------------------------------------------------------------------ *)
C3_ShutdownReleasesAll ==
    pc = "closed" =>
        \A s \in Slots :
            hist[s].phase = "open" =>
                /\ touch_slots[s].active_buttons = {}
                /\ \A n \in EmitNames : hist[s].bal[n] = 0

\* A viewport tap (press, haptic, syn, release, syn of the viewport key) ends es.
TapIn(es) ==
    /\ Len(es) >= 5
    /\ SubSeq(es, Len(es) - 4, Len(es)) =
          << Write("KEY_ENTER", 1, "VIEWPORT"), Haptic("VIEWPORT"), Syn(1, "VIEWPORT"),
             Write("KEY_ENTER", 0, "VIEWPORT"), Syn(0, "VIEWPORT") >>

\* The slot's latest point is known, in the viewport and over no button region.
RestsInViewport(slot) ==
    /\ slot.x # None /\ slot.y # None
    /\ check_touch_regions(slot.x, slot.y, slot.touch_size) = <<>>
    /\ is_in_viewport(slot.x, slot.y)

(* ------------------------------------------------------------------ *)
(* C2, as claimed: at the tracking-id end of a contact a viewport tap is   *)
(* emitted if and only if the contact ended inside the viewport, never     *)
(* triggered a swipe, never activated a button region, and less than       *)
(* VIEWPORT_TAP_TIMEOUT has passed since its start.                        *)
(* ------------------------------------------------------------------ *)
C2_TapIffViewportContact ==
    [][ (TrackingEnd /\ hist[current_slot].phase = "open") =>
          LET slot == touch_slots[current_slot] IN
          TapIn(emits') <=>
             /\ RestsInViewport(slot)
             /\ ~slot.swipe_detected
             /\ ~hist[current_slot].ever_button
             /\ Elapsed(slot.touch_start_time) < VIEWPORT_TAP_TIMEOUT ]_vars

(* ------------------------------------------------------------------ *)
(* C4, as claimed: two swipe emissions of the same slot are at least       *)
(* SWIPE_COOLDOWN apart, also when the second belongs to the next contact  *)
(* of the slot.                                                            *)
(* ------------------------------------------------------------------ *)
C4_SwipesCooldownApart ==
    [][ SwipeIn(emits') =>
          \/ hist[current_slot].swipe_at = 0
          \/ Elapsed(hist[current_slot].swipe_at) >= SWIPE_COOLDOWN ]_vars

\* The step is a position update handled by process_touch_position.
PositionStep ==
    \/ \E v \in XVals : ProcessTouchPosition("ABS_MT_POSITION_X", v)
    \/ \E v \in YVals : ProcessTouchPosition("ABS_MT_POSITION_Y", v)

\* Every write made for `name` among the calls es is a write of key k.
WritesOnly(es, name, k) ==
    \A i \in 1..Len(es) : (es[i].op = "write" /\ es[i].name = name) => es[i].key = k

(* ------------------------------------------------------------------ *)
(* C5: a swipe key is emitted only by a position update whose point is in  *)
(* the viewport and over no button region, and only when, relative to the  *)
(* slot's start origin at that update, |dx| > SWIPE_MIN_DISTANCE and       *)
(* |dy| < SWIPE_MAX_OFF_AXIS (KEY_RIGHT for dx > 0, KEY_LEFT for dx < 0)   *)
(* or |dy| > SWIPE_MIN_VERTICAL and |dx| < SWIPE_MAX_OFF_AXIS (KEY_DOWN    *)
(* for dy > 0, KEY_UP for dy < 0).                                         *)
(* ------------------------------------------------------------------ *)
C5_SwipeOnlyOnViewportMove ==
    [][ SwipeIn(emits') =>
          LET pre == touch_slots[current_slot]
              post == touch_slots'[current_slot]
              dx == post.x - (IF pre.start_x = None THEN post.x ELSE pre.start_x)
              dy == post.y - (IF pre.start_y = None THEN post.y ELSE pre.start_y)
              horizontal == Abs(dx) > SWIPE_MIN_DISTANCE /\ Abs(dy) < SWIPE_MAX_OFF_AXIS
              vertical == Abs(dy) > SWIPE_MIN_VERTICAL /\ Abs(dx) < SWIPE_MAX_OFF_AXIS
          IN /\ PositionStep
             /\ RestsInViewport(post)
             /\ horizontal \/ vertical
             /\ Calls(emits', "Swipe right", 1) > 0 =>
                   (horizontal /\ dx > 0 /\ WritesOnly(emits', "Swipe right", "KEY_RIGHT"))
             /\ Calls(emits', "Swipe left", 1) > 0 =>
                   (horizontal /\ dx < 0 /\ WritesOnly(emits', "Swipe left", "KEY_LEFT"))
             /\ Calls(emits', "Swipe down", 1) > 0 =>
                   (vertical /\ dy > 0 /\ WritesOnly(emits', "Swipe down", "KEY_DOWN"))
             /\ Calls(emits', "Swipe up", 1) > 0 =>
                   (vertical /\ dy < 0 /\ WritesOnly(emits', "Swipe up", "KEY_UP")) ]_vars

\* An upward swipe has just been emitted for a contact in the viewport.
C5_Witness ==
    /\ Calls(emits, "Swipe up", 1) = 1
    /\ Calls(emits, "Swipe up", 0) = 1
    /\ RestsInViewport(touch_slots[current_slot])
    /\ touch_slots[current_slot].swipe_detected

\* One KEY_RIGHT press and release, as emit_key issues them.
RightPair ==
    << Write("KEY_RIGHT", 1, "Swipe right"), Haptic("Swipe right"), Syn(1, "Swipe right"),
       Write("KEY_RIGHT", 0, "Swipe right"), Syn(0, "Swipe right") >>

\* The contact of slot s began at (100,100) and has just moved to (180,110),
\* with no tick of the clock in between.
MovedTo180x110(s) == hist[s].scen.stage \in {"done_xy", "done_yx"}

(* ------------------------------------------------------------------ *)
(* C9, as claimed: a contact that starts at (100,100) and moves to         *)
(* (180,110) emits exactly one KEY_RIGHT press+release pair, after which   *)
(* the slot cannot trigger a swipe and its origin is (180,110).            *)
(* ------------------------------------------------------------------ *)
C9_OriginAtEndPoint ==
    \A s \in Slots :
        MovedTo180x110(s) =>
            /\ hist[s].scen.calls = RightPair
            /\ ~can_trigger_swipe(s, touch_slots[s])
            /\ touch_slots[s].start_x = 180
            /\ touch_slots[s].start_y = 110

(* ------------------------------------------------------------------ *)
(* C9, as the code runs it: a contact that starts at (100,100) and moves   *)
(* to (180,110) within one tick emits exactly one KEY_RIGHT pair, at the   *)
(* x update.  The slot then has swipe_detected set and last_swipe_time     *)
(* stamped, so it cannot trigger a swipe (until SWIPE_COOLDOWN has passed: *)
(* no latch is kept in active_gestures), and its origin is the point at    *)
(* which the swipe fired: (180,110) when the y update came first,          *)
(* (180,100) when the x update came first.                                 *)
(* ------------------------------------------------------------------ *)
C9_OriginWhereSwipeFired ==
    \A s \in Slots :
        /\ hist[s].scen.stage = "my" =>
              (hist[s].scen.calls = <<>> /\ ~touch_slots[s].swipe_detected)
        /\ hist[s].scen.stage = "mx" =>
              (hist[s].scen.calls = RightPair /\ touch_slots[s].swipe_detected)
        /\ MovedTo180x110(s) =>
            /\ hist[s].scen.calls = RightPair
            /\ touch_slots[s].x = 180 /\ touch_slots[s].y = 110
            /\ touch_slots[s].swipe_detected
            /\ touch_slots[s].last_swipe_time = now
            /\ s \notin active_gestures
            /\ ~can_trigger_swipe(s, touch_slots[s])
            /\ touch_slots[s].start_x = 180
            /\ touch_slots[s].start_y = (IF hist[s].scen.stage = "done_yx" THEN 110 ELSE 100)

\* The move was made x first: the swipe fired at (180,100).
C9_Witness ==
    /\ hist[0].scen.stage = "done_xy"
    /\ hist[0].scen.calls = RightPair
    /\ touch_slots[0].start_y = 100

(* ------------------------------------------------------------------ *)
(* C10: a button region that is active before and after a step emits       *)
(* nothing in it; one that becomes active gets exactly one press and no    *)
(* release; and a tracking-id end gives each active button exactly one     *)
(* release and no press.  So a contact that stays over one region gets one *)
(* press at its first sample there and one release at its end.             *)
(* ------------------------------------------------------------------ *)
C10_HeldButtonOnePressOneRelease ==
    [][ \A n \in RegionNames :
          LET pre == touch_slots[current_slot].active_buttons
              post == touch_slots'[current_slot].active_buttons
          IN /\ (n \in pre /\ n \in post) =>
                   (Calls(emits', n, 1) = 0 /\ Calls(emits', n, 0) = 0)
             /\ (n \notin pre /\ n \in post) =>
                   (Calls(emits', n, 1) = 1 /\ Calls(emits', n, 0) = 0)
             /\ (n \in pre /\ TrackingEnd) =>
                   (Calls(emits', n, 1) = 0 /\ Calls(emits', n, 0) = 1) ]_vars

\* A contact resting on B BTN has just had a position update that emitted nothing.
C10_Witness ==
    /\ hist[current_slot].phase = "open"
    /\ touch_slots[current_slot].active_buttons = {"B BTN"}
    /\ hist[current_slot].bal["B BTN"] = 1
    /\ touch_slots[current_slot].x = 450 /\ touch_slots[current_slot].y = 330
    /\ emits = <<>>

(* ------------------------------------------------------------------ *)
(* The hit test on its own                                              *)
(* ------------------------------------------------------------------ *)

Rects == {touch_regions[i].coords : i \in 1..Len(touch_regions)} \cup {viewport.coords}

\* Points probed: every rectangle edge and its two neighbours, the edges of the
\* RIGHT+B box, and points well inside the viewport, LOAD and the RIGHT+B box.
ProbeXs ==
    {v \in UNION {{c[1] + d, c[3] + d} : c \in Rects, d \in {-1, 0, 1}} : v >= 0}
    \cup {229, 230, 231, 564, 565, 566} \cup {60, 100, 400}

ProbeYs ==
    {v \in UNION {{c[2] + d, c[4] + d} : c \in Rects, d \in {-1, 0, 1}} : v >= 0}
    \cup {302, 303, 304, 363, 364, 365} \cup {40, 240, 330}

ProbeSizes ==
    {0, TOUCH_SIZE_THRESHOLD - 1, TOUCH_SIZE_THRESHOLD, TOUCH_SIZE_THRESHOLD + 10}

HitInit ==
    /\ touch_slots = [s \in Slots |-> NoSlot]
    /\ current_slot = 0
    /\ active_gestures = {}
    /\ kbd = [k \in KeyCodes |-> 0]
    /\ now = StartTime
    /\ pc = "running"
    /\ emits = <<>>
    /\ hist = [s \in Slots |-> NoHist]
    /\ probe \in {[x |-> x, y |-> y, size |-> z, done |-> FALSE, result |-> <<>>] :
                    x \in ProbeXs, y \in ProbeYs, z \in ProbeSizes}
    /\ event = NoEvent
    /\ drv = "ok"

\* regions = self.check_touch_regions(x, y, touch_size)
HitApply ==
    /\ ~probe.done
    /\ probe' = [probe EXCEPT !.done = TRUE,
                              !.result = check_touch_regions(probe.x, probe.y, probe.size)]
    /\ UNCHANGED << touch_slots, current_slot, active_gestures, kbd, now, pc, emits, hist,
                    event, drv >>

HitNext == HitApply

HitSpec == HitInit /\ [][HitNext]_vars

\* (x, y) lies strictly inside the rectangle c.
StrictlyInside(c, x, y) == c[1] < x /\ x < c[3] /\ c[2] < y /\ y < c[4]

RectOf(name) == (CHOOSE i \in 1..Len(touch_regions) : touch_regions[i].name = name)

Has(list, name) == \E k \in 1..Len(list) : list[k] = name

(* ------------------------------------------------------------------ *)
(* C6: a point strictly inside a region's touch-space rectangle, with a    *)
(* touch size below the combo threshold, hits exactly that region.         *)
(* ------------------------------------------------------------------ *)
C6_StrictlyInsideHitsOne ==
    (probe.done /\ probe.size < TOUCH_SIZE_THRESHOLD) =>
        \A i \in 1..Len(touch_regions) :
            StrictlyInside(touch_regions[i].coords, probe.x, probe.y) =>
                probe.result = <<touch_regions[i].name>>

C6_Witness ==
    /\ probe.done
    /\ probe.size = TOUCH_SIZE_THRESHOLD - 1
    /\ StrictlyInside(touch_regions[RectOf("A BTN")].coords, probe.x, probe.y)
    /\ probe.result = <<"A BTN">>

(* ------------------------------------------------------------------ *)
(* C7: with a touch size at or above the combo threshold, a point in the   *)
(* RIGHT+B box hits both RIGHT and B BTN whichever of the two rectangles   *)
(* (or neither) holds it, and a point in the A BTN or the B BTN rectangle  *)
(* hits both A BTN and B BTN.                                              *)
(* ------------------------------------------------------------------ *)
C7_ComboHitsBoth ==
    (probe.done /\ probe.size >= TOUCH_SIZE_THRESHOLD) =>
        /\ (230 <= probe.x /\ probe.x <= 565 /\ 303 <= probe.y /\ probe.y <= 364) =>
              (Has(probe.result, "RIGHT") /\ Has(probe.result, "B BTN"))
        /\ (\/ InRect(touch_regions[RectOf("A BTN")].coords, probe.x, probe.y)
            \/ InRect(touch_regions[RectOf("B BTN")].coords, probe.x, probe.y)) =>
              (Has(probe.result, "A BTN") /\ Has(probe.result, "B BTN"))

\* A point of the box in neither rectangle, at exactly the threshold.
C7_Witness ==
    /\ probe.done
    /\ probe.size = TOUCH_SIZE_THRESHOLD
    /\ probe.x = 400 /\ probe.y = 330
    /\ ~InRect(touch_regions[RectOf("RIGHT")].coords, probe.x, probe.y)
    /\ ~InRect(touch_regions[RectOf("B BTN")].coords, probe.x, probe.y)
    /\ probe.result = <<"B BTN", "RIGHT">>

(* ------------------------------------------------------------------ *)
(* C8, as claimed: the point (60,40) with size 0 hits exactly LOAD.        *)
(* ------------------------------------------------------------------ *)
C8_Original ==
    (probe.done /\ probe.x = 60 /\ probe.y = 40 /\ probe.size = 0) =>
        probe.result = <<"LOAD">>

(* ------------------------------------------------------------------ *)
(* C8, amended: the point (60,40) with size 0 lies in the viewport and     *)
(* hits no region; LOAD's touch-space rectangle is (65,232)-(265,262), and *)
(* a point inside it such as (100,240) with size 0 hits exactly LOAD.      *)
(* ------------------------------------------------------------------ *)
C8_ViewportPoint ==
    /\ (probe.done /\ probe.x = 60 /\ probe.y = 40 /\ probe.size = 0) =>
          (probe.result = <<>> /\ is_in_viewport(probe.x, probe.y))
    /\ (probe.done /\ probe.x = 100 /\ probe.y = 240 /\ probe.size = 0) =>
          (probe.result = <<"LOAD">> /\
           touch_regions[RectOf("LOAD")].coords = <<65, 232, 265, 262>>)

C8_Witness ==
    probe.done /\ probe.x = 60 /\ probe.y = 40 /\ probe.size = 0 /\ probe.result = <<>>


(* ------------------------------------------------------------------ *)
(* Claims on the calls of one event                                     *)
(* ------------------------------------------------------------------ *)

\* The emit_key calls of the step just taken, one entry (its syn) per call.
IsCall(i) == emits[i].op = "syn"
IsPress(i) == IsCall(i) /\ emits[i].value = 1 /\ emits[i].name \in RegionNames
IsRelease(i) == IsCall(i) /\ emits[i].value = 0 /\ emits[i].name \in RegionNames
IsDirectionalRelease(i) == IsRelease(i) /\ emits[i].name \in directional_keys
IsOtherRelease(i) == IsRelease(i) /\ emits[i].name \notin directional_keys
IsGesture(i) == IsCall(i) /\ emits[i].name \in SwipeNames \cup {"VIEWPORT"}

\* Position of a call in the order the claim gives.
ClaimedRank(i) ==
    IF IsDirectionalRelease(i) THEN 1
    ELSE IF IsOtherRelease(i) THEN 2
    ELSE IF IsPress(i) THEN 3
    ELSE 4

(* ------------------------------------------------------------------ *)
(* C11, as claimed: the key calls of one event are issued in the order     *)
(* directional releases, non-directional releases, presses, gesture / tap; *)
(* no press of a newly active button precedes the release of a             *)
(* non-directional button that left the hit set in the same event.         *)
(* ------------------------------------------------------------------ *)
C11_ReleasesBeforePresses ==
    \A i, j \in 1..Len(emits) :
        (i < j /\ IsCall(i) /\ IsCall(j)) => ClaimedRank(i) <= ClaimedRank(j)

(* ------------------------------------------------------------------ *)
(* C11, amended: the key calls of one event are issued in the order        *)
(* releases of directional buttons that left the hit set, presses of the   *)
(* newly active buttons, releases of non-directional buttons that left the *)
(* hit set, gesture / tap: no press precedes a directional release, no     *)
(* non-directional release precedes a press, and no button call follows a  *)
(* swipe or tap call.                                                      *)
(* ------------------------------------------------------------------ *)
C11_PressesBeforeOtherReleases ==
    \A i, j \in 1..Len(emits) :
        i < j =>
            /\ ~(IsPress(i) /\ IsDirectionalRelease(j))
            /\ ~(IsOtherRelease(i) /\ IsPress(j))
            /\ ~(IsGesture(i) /\ (IsPress(j) \/ IsRelease(j)))

\* A contact has moved from B BTN to SAVE: SAVE was pressed, then B BTN released.
C11_Witness ==
    /\ emits = emit_key(<<"KEY_S", "KEY_E">>, 1, "SAVE") \o emit_key(<<"KEY_B">>, 0, "B BTN")
    /\ touch_slots[current_slot].active_buttons = {"SAVE"}

(* ------------------------------------------------------------------ *)
(* C12, as claimed: syn() is called exactly once for an event that made a  *)
(* key change, after all its haptic pulses, and not at all for an event    *)
(* that made none.                                                         *)
(* ------------------------------------------------------------------ *)
C12_OneSynPerEvent ==
    LET writes == {i \in 1..Len(emits) : emits[i].op = "write"}
        syns == {i \in 1..Len(emits) : emits[i].op = "syn"}
        pulses == {i \in 1..Len(emits) : emits[i].op = "haptic"}
    IN /\ Cardinality(syns) = (IF writes = {} THEN 0 ELSE 1)
       /\ \A s \in syns : \A h \in pulses : h < s

(* ------------------------------------------------------------------ *)
(* C12, as the code runs it: syn() is called once per emit_key call, so    *)
(* once per logical press or release: after the writes of the call and,    *)
(* for a press, directly after its haptic pulse.  An event that makes      *)
(* several calls (a swipe or a tap: press and release) syncs once for      *)
(* each, and an event that makes no key change does not sync.              *)
(* ------------------------------------------------------------------ *)
C12_OneSynPerCall ==
    LET n == Len(emits) IN
    /\ n > 0 => emits[n].op = "syn"
    /\ \A i \in 1..n :
          /\ emits[i].op = "haptic" =>
                (i < n /\ emits[i + 1] = Syn(1, emits[i].name)
                 /\ i > 1 /\ emits[i - 1].op = "write" /\ emits[i - 1].value = 1)
          /\ emits[i].op = "syn" =>
                (i > 1 /\ emits[i - 1].name = emits[i].name
                 /\ emits[i - 1].op = (IF emits[i].value = 1 THEN "haptic" ELSE "write"))
          /\ emits[i].op = "write" =>
                (i < n /\ emits[i + 1].name = emits[i].name
                 /\ \/ emits[i + 1].op = "write" /\ emits[i + 1].value = emits[i].value
                    \/ emits[i + 1].op = (IF emits[i].value = 1 THEN "haptic" ELSE "syn"))

\* A viewport tap has just been emitted: two calls, two syn().
C12_Witness ==
    /\ TapIn(emits)
    /\ Cardinality({i \in 1..Len(emits) : emits[i].op = "syn"}) = 2

\* Names of the regions bound to two key codes.
TwoKeyNames == {touch_regions[i].name : i \in {k \in 1..Len(touch_regions) :
                                                 Len(touch_regions[k].key) = 2}}

(* ------------------------------------------------------------------ *)
(* C13: for a region bound to two key codes (LOAD, SAVE, EXIT) both codes  *)
(* are written with the same value in one emit_key call with no syn()      *)
(* between them; the haptic pulse is requested once per press of the       *)
(* region, after both writes, and never for a release.                     *)
(* ------------------------------------------------------------------ *)
C13_TwoKeysOnePulse ==
    \A n \in TwoKeyNames :
        LET key == touch_regions[RectOf(n)].key
            len == Len(emits)
        IN /\ \A i \in 1..len :
                 (emits[i].op = "write" /\ emits[i].name = n) =>
                     \/ /\ emits[i].key = key[1]
                        /\ i + 2 <= len
                        /\ emits[i + 1] = Write(key[2], emits[i].value, n)
                        /\ IF emits[i].value = 1
                           THEN /\ i + 3 <= len
                                /\ emits[i + 2].op = "haptic" /\ emits[i + 2].name = n
                                /\ emits[i + 3] = Syn(1, n)
                           ELSE emits[i + 2] = Syn(0, n)
                     \/ /\ emits[i].key = key[2]
                        /\ i > 1
                        /\ emits[i - 1] = Write(key[1], emits[i].value, n)
           /\ Cardinality({i \in 1..len : emits[i].op = "haptic" /\ emits[i].name = n})
                 = Calls(emits, n, 1)

\* SAVE has just been pressed: KEY_S and KEY_E written, one pulse, one syn().
C13_Witness ==
    /\ Len(emits) = 4
    /\ emits[1] = Write("KEY_S", 1, "SAVE") /\ emits[2] = Write("KEY_E", 1, "SAVE")
    /\ emits[3].op = "haptic"
    /\ emits[4] = Syn(1, "SAVE")
    /\ kbd["KEY_S"] = 1 /\ kbd["KEY_E"] = 1

(* ------------------------------------------------------------------ *)
(* Claims on the dispatch of events                                     *)
(* ------------------------------------------------------------------ *)

\* The slot's latest point lies inside the RIGHT+B box.
RestsInComboBox(slot) ==
    slot.x # None /\ slot.y # None /\ in_right_b_box(slot.x, slot.y)

(* ------------------------------------------------------------------ *)
(* C14, as claimed: under the read loop a contact-size event sets the      *)
(* current slot's touch_size to its value and the hit test is evaluated    *)
(* again, so a contact resting inside the RIGHT+B box whose size rises to  *)
(* the threshold or above has both RIGHT and B BTN active.                 *)
(* ------------------------------------------------------------------ *)
C14_SizeEventReclassifies ==
    [][ (/\ \E e \in DispatchEvents : e.code = "ABS_MT_TOUCH_MAJOR" /\ run(e)
         /\ hist[current_slot].phase = "open"
         /\ RestsInComboBox(touch_slots[current_slot])) =>
          LET post == touch_slots'[current_slot] IN
          /\ post.touch_size = event'.value
          /\ post.touch_size >= TOUCH_SIZE_THRESHOLD =>
                {"RIGHT", "B BTN"} \subseteq post.active_buttons ]_vars

\* The event is one the read loop has a branch for.
Recognised(e) ==
    /\ e.type = "EV_ABS"
    /\ e.code \in {"ABS_MT_SLOT", "ABS_MT_TRACKING_ID", "ABS_MT_POSITION_X",
                   "ABS_MT_POSITION_Y"}

(* ------------------------------------------------------------------ *)
(* C16: an event whose type or axis code the read loop does not recognise  *)
(* is ignored: it changes no slot, leaves the current slot index alone and *)
(* makes no key, haptic or sync call.                                      *)
(* ------------------------------------------------------------------ *)
C16_UnrecognisedEventIgnored ==
    [][ (event' \in DispatchEvents /\ ~Recognised(event')) =>
          /\ touch_slots' = touch_slots
          /\ current_slot' = current_slot
          /\ active_gestures' = active_gestures
          /\ kbd' = kbd
          /\ emits' = <<>> ]_vars

\* A key event numbered like ABS_MT_SLOT, with value 1, was handled while a
\* contact of slot 0 held B BTN: slot 0 is still current and B BTN still held.
C16_Witness ==
    /\ event = [type |-> "EV_KEY", code |-> "ABS_MT_SLOT", value |-> 1]
    /\ current_slot = 0
    /\ touch_slots[0].active_buttons = {"B BTN"}
    /\ kbd["KEY_B"] = 1
    /\ emits = <<>>

(* ------------------------------------------------------------------ *)
(* C17: a failure of the haptic driver during a press is swallowed: the    *)
(* key writes of the press are still followed by syn(), the slot is        *)
(* updated as for a successful pulse (the pressed region is active, the    *)
(* keyboard has its keys down), and the read loop goes on.                 *)
(* ------------------------------------------------------------------ *)
C17_HapticFailureSwallowed ==
    \A i \in 1..Len(emits) :
        (emits[i].op = "haptic" /\ emits[i].value = 0) =>
            /\ i > 1 /\ emits[i - 1].op = "write" /\ emits[i - 1].value = 1
            /\ i < Len(emits) /\ emits[i + 1] = Syn(1, emits[i].name)
            /\ emits[i].name \in RegionNames =>
                  /\ emits[i].name \in touch_slots[current_slot].active_buttons
                  /\ touch_slots[current_slot].button_pressed
            /\ pc = "running"

\* B BTN was pressed while the driver failed: KEY_B is down, the region active.
C17_Witness ==
    /\ drv = "error"
    /\ emits = << Write("KEY_B", 1, "B BTN"),
                  [op |-> "haptic", key |-> "", value |-> 0, name |-> "B BTN"],
                  Syn(1, "B BTN") >>
    /\ touch_slots[current_slot].active_buttons = {"B BTN"}
    /\ kbd["KEY_B"] = 1

(* ------------------------------------------------------------------ *)
(* Claims on the slot bookkeeping                                       *)
(* ------------------------------------------------------------------ *)

(* ------------------------------------------------------------------ *)
(* C15, as claimed: position events may come for a slot before its         *)
(* tracking-id start; they are classified like any other sample, and once  *)
(* the contact's tracking-id end has been processed every press emitted    *)
(* for the slot, those before the start included, has been matched by a    *)
(* release: no key of the virtual keyboard is left down.                   *)
(* ------------------------------------------------------------------ *)
C15_EarlyPressesReleased ==
    \A s \in Slots :
        hist[s].phase = "closed" => \A k \in KeyCodes : kbd[k] = 0

(* ------------------------------------------------------------------ *)
(* C18, as claimed: a region name is in a slot's active_buttons if and     *)
(* only if a press of it has been emitted for the slot with no matching    *)
(* release since.  Stated on steps: every slot-select, tracking-id and     *)
(* position event that finds the two sides agreeing leaves them agreeing.  *)
(* ------------------------------------------------------------------ *)
C18_ActiveIffPressed ==
    [][ \A s \in Slots : \A n \in RegionNames :
          LET d == IF s = current_slot THEN Delta(emits', n) ELSE 0 IN
          (n \in touch_slots[s].active_buttons <=> hist[s].bal[n] = 1) =>
              (n \in touch_slots'[s].active_buttons <=> hist[s].bal[n] + d = 1) ]_vars

(* ------------------------------------------------------------------ *)
(* C19, as claimed: each slot is in exactly one of the classes no active   *)
(* region, one or more active buttons, in the viewport: no slot has a      *)
(* non-empty active_buttons set while its in_viewport flag is true.        *)
(* ------------------------------------------------------------------ *)
C19_ButtonsOrViewport ==
    \A s \in Slots :
        ~(touch_slots[s].active_buttons # {} /\ touch_slots[s].in_viewport)

(* ------------------------------------------------------------------ *)
(* C20, as claimed: once a button region has been active during a contact  *)
(* no swipe and no viewport tap is emitted for the rest of the contact,    *)
(* whichever way it goes on (to the viewport directly, or to a point       *)
(* outside every region and then into the viewport).                       *)
(* ------------------------------------------------------------------ *)
C20_NoGestureAfterButton ==
    [][ (hist[current_slot].phase = "open" /\ hist[current_slot].ever_button
         /\ current_slot' = current_slot) =>
            (~SwipeIn(emits') /\ ~TapIn(emits')) ]_vars

(* ------------------------------------------------------------------ *)
(* Claims on the branches of process_touch_position                     *)
(* ------------------------------------------------------------------ *)

\* The step is a position update that leaves the current slot's point known,
\* outside every button region and outside the viewport.
MovesOutside ==
    /\ LET post == touch_slots'[current_slot] IN
       /\ post.x # None /\ post.y # None
       /\ ~is_in_viewport(post.x, post.y)
       /\ check_touch_regions(post.x, post.y, post.touch_size) = <<>>
    /\ PositionStep

\* After the step the current slot has no active button, and the step made
\* exactly one release for each button active before it and no press.
ReleasedAll ==
    /\ touch_slots'[current_slot].active_buttons = {}
    /\ \A n \in RegionNames :
          /\ Calls(emits', n, 1) = 0
          /\ Calls(emits', n, 0) =
                (IF n \in touch_slots[current_slot].active_buttons THEN 1 ELSE 0)

(* ------------------------------------------------------------------ *)
(* C21, as claimed: after a position update whose point is outside every   *)
(* button region and outside the viewport the slot has no active button,   *)
(* each previously active one having got exactly one release, and          *)
(* button_pressed is false, whatever the slot's state before the update.   *)
(* ------------------------------------------------------------------ *)
C21_OutsideClearsFlag ==
    [][ MovesOutside =>
          (ReleasedAll /\ ~touch_slots'[current_slot].button_pressed) ]_vars

(* ------------------------------------------------------------------ *)
(* C21, amended: after such an update the slot has no active button, each  *)
(* previously active one having got exactly one release; button_pressed    *)
(* is false if the slot had an active button before the update, and is     *)
(* left as it was if it had none.                                          *)
(* ------------------------------------------------------------------ *)
C21_OutsideClearsFlagOfHeldButtons ==
    [][ MovesOutside =>
          /\ ReleasedAll
          /\ touch_slots'[current_slot].button_pressed =
                (/\ touch_slots[current_slot].active_buttons = {}
                 /\ touch_slots[current_slot].button_pressed) ]_vars

\* A contact went from a button to the viewport (which released the button) and
\* on to a point outside every region: button_pressed is still set.
C21_Witness ==
    /\ hist[current_slot].phase = "open"
    /\ touch_slots[current_slot].x = 180 /\ touch_slots[current_slot].y = 330
    /\ touch_slots[current_slot].active_buttons = {}
    /\ touch_slots[current_slot].button_pressed
    /\ touch_slots[current_slot].in_viewport

(* ------------------------------------------------------------------ *)
(* Claims on the two swipe tests                                        *)
(* ------------------------------------------------------------------ *)

\* The displacement a position update of the current slot is tested with: the
\* point after the update against the origin before it.
StepDx == touch_slots'[current_slot].x - touch_slots[current_slot].start_x
StepDy == touch_slots'[current_slot].y - touch_slots[current_slot].start_y

\* Swipe presses among the calls es.
SwipePresses(es) ==
    Cardinality({i \in 1..Len(es) : es[i].op = "syn" /\ es[i].value = 1
                                      /\ es[i].name \in SwipeNames})

(* ------------------------------------------------------------------ *)
(* C22: a position update emits at most one swipe, and when the horizontal *)
(* and the vertical test both hold for its (dx, dy) and the slot can       *)
(* trigger a swipe, the swipe emitted is the horizontal one (KEY_RIGHT for *)
(* dx > 0, KEY_LEFT for dx < 0).                                           *)
(* ------------------------------------------------------------------ *)
C22_HorizontalFirst ==
    [][ /\ SwipePresses(emits') <= 1
        /\ (/\ is_horizontal_swipe(StepDx, StepDy)
            /\ is_vertical_swipe(StepDx, StepDy)
            /\ can_trigger_swipe(current_slot, touch_slots[current_slot])) =>
              /\ Calls(emits', IF StepDx > 0 THEN "Swipe right" ELSE "Swipe left", 1) = 1
              /\ WritesOnly(emits', "Swipe right", "KEY_RIGHT")
              /\ WritesOnly(emits', "Swipe left", "KEY_LEFT")
              /\ Calls(emits', "Swipe down", 1) = 0
              /\ Calls(emits', "Swipe up", 1) = 0 ]_vars

\* The contact stood at dx = -65, dy = 60 from its origin: one KEY_LEFT swipe.
C22_Witness ==
    /\ touch_slots[0].x = 35 /\ touch_slots[0].y = 160
    /\ touch_slots[0].start_x = 35 /\ touch_slots[0].start_y = 160
    /\ touch_slots[0].last_swipe_time = now
    /\ Calls(emits, "Swipe left", 1) = 1
    /\ SwipePresses(emits) = 1

(* ------------------------------------------------------------------ *)
(* C23, as claimed: with the configured constants no integer displacement  *)
(* (dx, dy) satisfies the horizontal and the vertical swipe test at once.  *)
(* ------------------------------------------------------------------ *)
C23_TestsExclusive ==
    [][ ~(is_horizontal_swipe(StepDx, StepDy) /\ is_vertical_swipe(StepDx, StepDy)) ]_vars

(* ------------------------------------------------------------------ *)
(* C23, amended: with the configured constants the two tests are not       *)
(* mutually exclusive: both hold exactly for the displacements with        *)
(* 61 <= |dx| <= 69 and 51 <= |dy| <= 69 (the off-axis bound, 70, is       *)
(* larger than both minimum distances, 60 and 50); for every other         *)
(* displacement at most one of them holds.                                 *)
(* ------------------------------------------------------------------ *)
C23_TestsOverlapInBand ==
    [][ (is_horizontal_swipe(StepDx, StepDy) /\ is_vertical_swipe(StepDx, StepDy))
          <=> (/\ 61 <= Abs(StepDx) /\ Abs(StepDx) <= 69
               /\ 51 <= Abs(StepDy) /\ Abs(StepDy) <= 69) ]_vars

\* The contact stood at dx = 65, dy = 60 from its origin, where both tests hold:
\* the update swiped right.
C23_Witness ==
    /\ touch_slots[0].x = 165 /\ touch_slots[0].y = 160
    /\ touch_slots[0].start_x = 165 /\ touch_slots[0].start_y = 160
    /\ Calls(emits, "Swipe right", 1) = 1

(* ------------------------------------------------------------------ *)
(* Two contacts at once                                                 *)
(* ------------------------------------------------------------------ *)

\* Coordinates the device reports for either contact: the B BTN rectangle and
\* a viewport point above it.
MultiXs == {450}
MultiYs == {100, 330}

\* Events of a device that reports two slots.
MultiEvents ==
    {Abs_("ABS_MT_SLOT", v) : v \in Slots}
    \cup {Abs_("ABS_MT_TRACKING_ID", v) : v \in TrackingIds \cup {TRACKING_END}}
    \cup {Abs_("ABS_MT_POSITION_X", v) : v \in MultiXs}
    \cup {Abs_("ABS_MT_POSITION_Y", v) : v \in MultiYs}

\* The device follows the multitouch protocol: in a slot a tracking id is
\* assigned only when no contact is in progress, and cleared or followed by
\* positions only when one is.
Conforms(e) ==
    LET open == hist[current_slot].phase = "open" IN
    CASE e.code = "ABS_MT_SLOT" -> TRUE
      [] e.code = "ABS_MT_TRACKING_ID" -> (e.value = TRACKING_END) = open
      [] OTHER -> open

MultiNext == \E e \in MultiEvents : Conforms(e) /\ run(e)

\* The read loop fed by two interleaved contacts, no time passing.
MultiSpec == Init /\ [][MultiNext]_vars

(* ------------------------------------------------------------------ *)
(* Claims on two contacts at once                                       *)
(* ------------------------------------------------------------------ *)

(* ------------------------------------------------------------------ *)
(* C24: a tracking-id or position event changes the stored state of the    *)
(* selected slot only (every other slot keeps its coordinates, origin,     *)
(* active buttons, flags and timestamps) and leaves the selection as it    *)
(* is; a slot-select event changes no slot's state and emits nothing.      *)
(* ------------------------------------------------------------------ *)
C24_OnlySelectedSlot ==
    [][ /\ (event'.code = "ABS_MT_SLOT") =>
              (touch_slots' = touch_slots /\ emits' = <<>> /\ kbd' = kbd)
        /\ (event'.code \in {"ABS_MT_TRACKING_ID", "ABS_MT_POSITION_X",
                              "ABS_MT_POSITION_Y"}) =>
              /\ current_slot' = current_slot
              /\ \A s \in Slots \ {current_slot} : touch_slots'[s] = touch_slots[s] ]_vars

\* The contact of slot 1 has ended while slot 0 holds a contact on B BTN, which
\* is still stored in full.
C24_Witness ==
    /\ current_slot = 1
    /\ event = Abs_("ABS_MT_TRACKING_ID", TRACKING_END)
    /\ touch_slots[1] = EmptySlot
    /\ touch_slots[0].tracking_id = 5
    /\ touch_slots[0].x = 450 /\ touch_slots[0].y = 330
    /\ touch_slots[0].active_buttons = {"B BTN"}

\* The key codes bound to the region `name`.
KeysOf(name) ==
    LET keys == touch_regions[RectOf(name)].key IN {keys[i] : i \in 1..Len(keys)}

(* ------------------------------------------------------------------ *)
(* C25: in every reachable state the last value written to the virtual     *)
(* keyboard for a key code is down if and only if some slot holds an       *)
(* active button bound to that key code.                                   *)
(* ------------------------------------------------------------------ *)
C25_DownIffHeld ==
    \A k \in KeyCodes :
        (kbd[k] = 1) <=>
            \E s \in Slots : \E n \in touch_slots[s].active_buttons : k \in KeysOf(n)

(* ------------------------------------------------------------------ *)
(* Claims on a tracking id assigned to a contact in progress            *)
(* ------------------------------------------------------------------ *)

(* ------------------------------------------------------------------ *)
(* C26: a tracking-id event with a non-negative id for a slot whose        *)
(* contact is in progress loses no pressed button: every button active in  *)
(* the slot before the event is still recorded as active after it, or has  *)
(* been released by it.                                                    *)
(* ------------------------------------------------------------------ *)
C26_RestartKeepsOrReleases ==
    [][ (/\ event'.type = "EV_ABS" /\ event'.code = "ABS_MT_TRACKING_ID"
         /\ event'.value # TRACKING_END
         /\ hist[current_slot].phase = "open") =>
            \A n \in touch_slots[current_slot].active_buttons :
                \/ n \in touch_slots'[current_slot].active_buttons
                \/ Calls(emits', n, 0) = 1 ]_vars

(* ------------------------------------------------------------------ *)
(* Claims on the size of the hit list                                   *)
(* ------------------------------------------------------------------ *)

(* ------------------------------------------------------------------ *)
(* C27: for every point and every touch size check_touch_regions returns   *)
(* at most two regions, also where the A/B rule and the RIGHT+B box both   *)
(* apply to the point.                                                     *)
(* ------------------------------------------------------------------ *)
C27_AtMostTwoRegions ==
    probe.done => Len(probe.result) <= 2
====
